---- MODULE Spec2Model ----
(***************************************************************************)
(* Model of QueryExecutorBase (src/query-executor/query-executor-base.ts): *)
(* the query-transform chain, the executeQuery orchestration around an     *)
(* abstract provideConnection, the result-transform chain and the          *)
(* stack-trace continuation applied to intercepted failures.               *)
(***************************************************************************)
EXTENDS Integers, Sequences, FiniteSets, TLC

VARIABLES plugins, tq, calls, derived

vars == <<plugins, tq, calls, derived>>

----------------------------------------------------------------------------
(* Bounds of the model. *)

\* Longest plugin sequence an executor is constructed with.
MaxPlugins == 2

\* Number of executeQuery calls that may be in flight on the one instance.
NumCalls == 2

----------------------------------------------------------------------------
(* JavaScript values.  A string is kept as the sequence of its lines, i.e.  *)
(* what s.split('\n') returns: it is never empty, the empty string is      *)
(* <<"">>.  Values of other types carry an empty `lines`.                   *)

Undefined == [t |-> "undefined", lines |-> <<>>]

NumberValue == [t |-> "number", lines |-> <<>>]

Str(ls) == [t |-> "string", lines |-> ls]

EmptyString == Str(<<"">>)

\* util/object-utils.js isString: typeof obj === 'string'.
isString(v) == v.t = "string"

\* util/object-utils.js isObject: typeof obj === 'object' && obj !== null.
\* A thrown value is a record; `obj` tells whether it is an object.
isObject(v) == v.obj

\* JavaScript truthiness of a value that is undefined or a string.
Truthy(v) == isString(v) /\ v # EmptyString

\* s.split('\n')
Split(s) == s.lines

\* a.slice(1)
Slice1(a) == IF a = <<>> THEN <<>> ELSE Tail(a)

\* a.join('\n'): the empty array joins to the empty string.
Join(a) == IF a = <<>> THEN EmptyString ELSE Str(a)

\* Variant: the extension is put in front of the trace.
ConcatNewlineInFront(s, e) == Str(e.lines \o s.lines)

\* The template `${s}\n${e}`, which is what  s += `\n${e}`  assigns.
ConcatNewline(s, e) == Str(s.lines \o e.lines)

\* Number of lines of a string.
LineCount(s) == Len(s.lines)

\* p is a prefix of s, as sequences of lines.
IsPrefix(p, s) == /\ Len(p) <= Len(s)
                  /\ SubSeq(s, 1, Len(p)) = p

----------------------------------------------------------------------------
(* Operation tree nodes: a `kind` discriminant and the rewrites applied to *)
(* the subtree (the ids of the plugins that rewrote it, in order).         *)

Kinds == {"select", "update", "delete"}

Node(k, rw) == [kind |-> k, rewrites |-> rw]

NoNode == Node("none", <<>>)

InputNodes == {Node(k, <<>>) : k \in Kinds}

QueryIds == {"id1", "id2"}

NoId == "noid"

----------------------------------------------------------------------------
(* Failures: the values a collaborator may throw.  `ref` is the identity   *)
(* of the thrown value, `name` its kind, `data` what it carries, `stack`   *)
(* the value of its `stack` property.  Failure objects are ordinary        *)
(* objects: their `stack` property can be assigned.                        *)

Failure(r, o, n, d, s) == [ref |-> r, obj |-> o, name |-> n, data |-> d, stack |-> s]

NoFailure == Failure("none", FALSE, "none", <<>>, Undefined)

OriginTrace == Str(<<"Error: boom", "at origin">>)

\* Shapes of thrown values: an Error-like object with a trace, one with an
\* empty trace, an object without `stack`, an object whose `stack` is not a
\* string, and a value that is not an object.
Shape(o, s) == [obj |-> o, stack |-> s]

ErrorShape == Shape(TRUE, OriginTrace)

ThrownShapes ==
    { ErrorShape,
      Shape(TRUE, EmptyString),
      Shape(TRUE, Undefined),
      Shape(TRUE, NumberValue),
      Shape(FALSE, Undefined) }

\* The values collaborator `who` may throw, of the given shapes.
ThrownBy(who, shapes) ==
    {Failure(who, sh.obj, who, <<"payload">>, sh.stack) : sh \in shapes}

\* What  new Error().stack  may evaluate to at the catch site: absent, empty,
\* the leading line alone, or the leading line followed by frames.
FreshStacks ==
    { Undefined,
      EmptyString,
      Str(<<"Error">>),
      Str(<<"Error", "at executeQuery">>),
      Str(<<"Error", "at executeQuery", "at caller">>) }

----------------------------------------------------------------------------
(* Plugins.  `q` is what the plugin's transformQuery does, `r` what its     *)
(* transformResult does.                                                    *)

Plugin(i, qb, rb) == [id |-> i, q |-> qb, r |-> rb]

Uppercase == Plugin("Uppercase", "rewrite", "rewrite")

AddLimit == Plugin("AddLimit", "rewrite", "rewrite")

ToDelete == Plugin("ToDelete", "toDelete", "reshape")

Faulty == Plugin("Faulty", "throw", "throw")

Catalogue == {Uppercase, AddLimit, ToDelete, Faulty}

\* The node plugin p returns for { node, queryId } (when it returns).
PluginTransformQuery(p, node, queryId) ==
    CASE p.q = "rewrite"  -> Node(node.kind, Append(node.rewrites, p.id))
      [] p.q = "toDelete" -> Node("delete", Append(node.rewrites, p.id))
      [] OTHER            -> node

PluginQueryThrows(p) == p.q = "throw"

\* Query results: a shape and the rows, here the raw value followed by the
\* ids of the plugins that transformed it.
Result(sh, rw) == [shape |-> sh, rows |-> rw]

NoResult == Result("none", <<>>)

\* The result plugin p resolves to for { result, queryId } (when it resolves).
PluginTransformResult(p, result, queryId) ==
    CASE p.r = "rewrite" -> Result(result.shape, Append(result.rows, p.id))
      [] p.r = "reshape" -> Result("parsed", Append(result.rows, p.id))
      [] OTHER           -> result

PluginResultThrows(p) == p.r = "throw"

----------------------------------------------------------------------------
(* The executor instance.                                                   *)

NO_PLUGINS == <<>>

SeqsUpTo(S, n) == UNION {[1..k -> S] : k \in 0..n}

\* constructor(plugins = NO_PLUGINS)
Constructor(ps) == ps

\* The element  for (const plugin of this.#plugins)  visits after `done`
\* iterations, and whether the iteration has one.
HasNextPlugin(ps, done) == done < Len(ps)

\* Variant: the sequence is walked from its end.
NextPluginReversed(ps, done) == ps[Len(ps) - done]

NextPlugin(ps, done) == ps[done + 1]

----------------------------------------------------------------------------
(* Derivation of executors.  `derived` is the instance the latest           *)
(* derivation or construction returned: the operation, the plugins of the   *)
(* receiver when it was called, the argument, and the plugins and the       *)
(* connection provider the new instance was constructed with.               *)

Providers == {"pool", "single"}

DefaultProvider == "pool"

Derivation(o, rcv, arg, ps, cp) ==
    [op |-> o, receiver |-> rcv, arg |-> arg, plugins |-> ps, provider |-> cp]

NoDerivation == Derivation("none", <<>>, <<>>, <<>>, DefaultProvider)

\* new Executor(): the plugins parameter takes its default.
ConstructorDefault == Constructor(NO_PLUGINS)

\* withPlugin(plugin): one plugin added at the end.
withPlugin(ps, p) == Constructor(Append(ps, p))

\* withPlugins(plugins): the whole sequence replaced.
withPlugins(ps, qs) == Constructor(qs)

\* withPluginAtFront(plugin): one plugin added at the front.
withPluginAtFront(ps, p) == Constructor(<<p>> \o ps)

\* withoutPlugins(): the sequence cleared.
withoutPlugins(ps) == Constructor(<<>>)

\* The plugins withPlugin and withPluginAtFront are called with, and the
\* sequences withPlugins is called with.
AddedPlugins == {AddLimit, ToDelete}

ReplacementSequences == {<<>>, <<AddLimit>>, <<ToDelete, Faulty>>}

WithPlugin(p) ==
    /\ derived' = Derivation("withPlugin", plugins, <<p>>, withPlugin(plugins, p), DefaultProvider)
    /\ UNCHANGED <<plugins, tq, calls>>

WithPlugins(qs) ==
    /\ derived' = Derivation("withPlugins", plugins, qs, withPlugins(plugins, qs), DefaultProvider)
    /\ UNCHANGED <<plugins, tq, calls>>

WithPluginAtFront(p) ==
    /\ derived' = Derivation("withPluginAtFront", plugins, <<p>>,
                             withPluginAtFront(plugins, p), DefaultProvider)
    /\ UNCHANGED <<plugins, tq, calls>>

WithoutPlugins ==
    /\ derived' = Derivation("withoutPlugins", plugins, <<>>, withoutPlugins(plugins), DefaultProvider)
    /\ UNCHANGED <<plugins, tq, calls>>

\* withConnectionProvider(connectionProvider): the plugins are kept.
WithConnectionProvider(cp) ==
    /\ derived' = Derivation("withConnectionProvider", plugins, <<>>, Constructor(plugins), cp)
    /\ UNCHANGED <<plugins, tq, calls>>

\* An instance constructed without a plugins argument.
ConstructWithoutArgument ==
    /\ derived' = Derivation("new", plugins, <<>>, ConstructorDefault, DefaultProvider)
    /\ UNCHANGED <<plugins, tq, calls>>

----------------------------------------------------------------------------
(* transformQuery(node, queryId): one step per loop iteration.              *)

TqIdle == [pc |-> "idle", input |-> NoNode, id |-> NoId, node |-> NoNode,
           done |-> 0, log |-> <<>>, out |-> NoNode, error |-> NoFailure]

\* One invocation of a plugin, as the plugin saw it.
Invocation(p, given, id, ret) == [plugin |-> p, given |-> given, id |-> id, returned |-> ret]

\* Variant: the two kinds are interpolated the other way round.
KindMismatchMessageSwapped(node, transformedNode) ==
    << "KyselyPlugin.transformQuery must return a node",
       "of the same kind that was given to it.",
       "The plugin was given a", transformedNode.kind,
       "but it returned a", node.kind >>

\* The Error thrown on a kind mismatch; its message is the four template
\* strings joined by ' ', kept as its pieces.
KindMismatchMessage(node, transformedNode) ==
    << "KyselyPlugin.transformQuery must return a node",
       "of the same kind that was given to it.",
       "The plugin was given a", node.kind,
       "but it returned a", transformedNode.kind >>

KindMismatchError(node, transformedNode) ==
    Failure("mismatch", TRUE, "Error", KindMismatchMessage(node, transformedNode),
            Str(<<"Error: KyselyPlugin.transformQuery must return a node", "at transformQuery">>))

\* Variant: the returned node is accepted whatever its kind.
SameKindUnchecked(transformedNode, node) == TRUE

\* The runtime check of line 35.
SameKind(transformedNode, node) == transformedNode.kind = node.kind

TransformQueryCall(n, id) ==
    /\ tq.pc = "idle"
    /\ tq' = [TqIdle EXCEPT !.pc = "loop", !.input = n, !.id = id, !.node = n]
    /\ UNCHANGED <<plugins, calls, derived>>

\* The plugin throws: the exception leaves transformQuery as it is.
TransformQueryPluginThrows ==
    /\ tq.pc = "loop"
    /\ HasNextPlugin(plugins, tq.done)
    /\ LET plugin == NextPlugin(plugins, tq.done) IN
       /\ PluginQueryThrows(plugin)
       /\ \E f \in ThrownBy("PluginFailure", {ErrorShape}) :
            tq' = [tq EXCEPT !.pc = "thrown", !.error = f,
                             !.log = Append(@, Invocation(plugin.id, tq.node, tq.id, NoNode))]
    /\ UNCHANGED <<plugins, calls, derived>>

\* Variant: the loop takes the plugins off the sequence as it visits them.
TransformQueryStepConsuming ==
    /\ tq.pc = "loop"
    /\ HasNextPlugin(plugins, 0)
    /\ LET plugin == NextPlugin(plugins, 0)
           transformedNode == PluginTransformQuery(plugin, tq.node, tq.id) IN
       /\ ~PluginQueryThrows(plugin)
       /\ SameKind(transformedNode, tq.node)
       /\ tq' = [tq EXCEPT !.node = transformedNode,
                           !.log = Append(@, Invocation(plugin.id, tq.node, tq.id, transformedNode))]
       /\ plugins' = Tail(plugins)
    /\ UNCHANGED <<calls, derived>>

\* The plugin returns a node of the same kind: it becomes the working node.
TransformQueryStep ==
    /\ tq.pc = "loop"
    /\ HasNextPlugin(plugins, tq.done)
    /\ LET plugin == NextPlugin(plugins, tq.done)
           transformedNode == PluginTransformQuery(plugin, tq.node, tq.id) IN
       /\ ~PluginQueryThrows(plugin)
       /\ SameKind(transformedNode, tq.node)
       /\ tq' = [tq EXCEPT !.node = transformedNode, !.done = @ + 1,
                           !.log = Append(@, Invocation(plugin.id, tq.node, tq.id, transformedNode))]
    /\ UNCHANGED <<plugins, calls, derived>>

\* The plugin returns a node of another kind: transformQuery throws.
TransformQueryMismatch ==
    /\ tq.pc = "loop"
    /\ HasNextPlugin(plugins, tq.done)
    /\ LET plugin == NextPlugin(plugins, tq.done)
           transformedNode == PluginTransformQuery(plugin, tq.node, tq.id) IN
       /\ ~PluginQueryThrows(plugin)
       /\ ~SameKind(transformedNode, tq.node)
       /\ tq' = [tq EXCEPT !.pc = "thrown",
                           !.error = KindMismatchError(tq.node, transformedNode),
                           !.log = Append(@, Invocation(plugin.id, tq.node, tq.id, transformedNode))]
    /\ UNCHANGED <<plugins, calls, derived>>

\* Variant: what is returned is the last plugin's node, which there is none
\* of when the loop never ran.
TransformQueryReturnLast ==
    /\ tq.pc = "loop"
    /\ ~HasNextPlugin(plugins, tq.done)
    /\ tq' = [tq EXCEPT !.pc = "returned",
                        !.out = IF tq.log = <<>> THEN NoNode ELSE tq.node]
    /\ UNCHANGED <<plugins, calls, derived>>

\* return node
TransformQueryReturn ==
    /\ tq.pc = "loop"
    /\ ~HasNextPlugin(plugins, tq.done)
    /\ tq' = [tq EXCEPT !.pc = "returned", !.out = tq.node]
    /\ UNCHANGED <<plugins, calls, derived>>

----------------------------------------------------------------------------
(* Stack continuity.                                                        *)

\* Variant: any object counts as a stack holder.
isStackHolderAnyObject(obj) == isObject(obj)

\* isStackHolder(obj): isObject(obj) && isString(obj.stack)
isStackHolder(obj) == isObject(obj) /\ isString(obj.stack)

\* stackError.stack.split('\n').slice(1).join('\n')
StackExtension(stackErrorStack) == Join(Slice1(Split(stackErrorStack)))

\* Variant: the failure is wrapped into a new Error carrying the longer trace.
extendStackTraceWrapped(err, stackErrorStack) ==
    IF isStackHolder(err) /\ Truthy(stackErrorStack)
    THEN Failure("wrapper", TRUE, "Error", err.data,
                 ConcatNewline(err.stack, StackExtension(stackErrorStack)))
    ELSE err

\* extendStackTrace(err), where stackErrorStack is what  new Error().stack
\* evaluates to.  The object returned is err itself; only its stack is assigned.
extendStackTrace(err, stackErrorStack) ==
    IF isStackHolder(err)
    THEN IF ~Truthy(stackErrorStack)
         THEN err
         ELSE [err EXCEPT !.stack = ConcatNewline(err.stack, StackExtension(stackErrorStack))]
    ELSE err

----------------------------------------------------------------------------
(* executeQuery(compiledQuery, queryId): one record per call in flight.     *)

Calls == 1..NumCalls

CompiledQueries == {"q1", "q2"}

NoQuery == "noquery"

\* What the connection resolves to for a compiled query.
ConnectionExecuteQuery(cq) == Result("rows", <<cq>>)

CallIdle == [pc |-> "idle", cq |-> NoQuery, id |-> NoId,
             raw |-> NoResult, result |-> NoResult, done |-> 0, log |-> <<>>,
             value |-> NoResult, pending |-> NoFailure, failing |-> FALSE,
             fresh |-> Undefined, out |-> NoResult, thrown |-> NoFailure,
             provided |-> 0, executed |-> 0, acquired |-> 0, released |-> 0,
             caught |-> 0]

\* A plugin.transformResult invocation starting or settling, as the plugin saw it.
Event(e, p, res, id) == [ev |-> e, plugin |-> p, result |-> res, id |-> id]

\* executeQuery is entered and calls this.provideConnection(consumer).
ExecuteQueryCall(c, cq, id) ==
    /\ calls[c].pc = "idle"
    /\ calls' = [calls EXCEPT ![c] = [CallIdle EXCEPT !.pc = "provide", !.cq = cq,
                                                     !.id = id, !.provided = 1]]
    /\ UNCHANGED <<plugins, tq, derived>>

\* provideConnection acquires a connection and invokes the consumer with it;
\* the consumer calls connection.executeQuery(compiledQuery) at once and is
\* suspended on its promise: at "consumer" the execution is pending.
ProvideConnectionAcquire(c) ==
    /\ calls[c].pc = "provide"
    /\ calls' = [calls EXCEPT ![c].pc = "consumer", ![c].acquired = @ + 1,
                              ![c].executed = @ + 1]
    /\ UNCHANGED <<plugins, tq, derived>>

\* provideConnection fails to acquire: the consumer is never invoked.
ProvideConnectionFails(c, f) ==
    /\ calls[c].pc = "provide"
    /\ calls' = [calls EXCEPT ![c].pc = "settled", ![c].pending = f, ![c].failing = TRUE]
    /\ UNCHANGED <<plugins, tq, derived>>

\* Variant: the consumer returns the raw result and #transformResult runs
\* on what provideConnection resolved to, after the release.
ConnectionResolvesOutsideUnit(c) ==
    /\ calls[c].pc = "consumer"
    /\ calls' = [calls EXCEPT ![c].pc = "transform",
                              ![c].released = @ + 1,
                              ![c].raw = ConnectionExecuteQuery(calls[c].cq),
                              ![c].result = ConnectionExecuteQuery(calls[c].cq),
                              ![c].done = 0]
    /\ UNCHANGED <<plugins, tq, derived>>

\* The promise of connection.executeQuery(compiledQuery) resolves: result is
\* assigned and #transformResult is entered with it.
ConnectionResolves(c) ==
    /\ calls[c].pc = "consumer"
    /\ calls' = [calls EXCEPT ![c].pc = "transform",
                              ![c].raw = ConnectionExecuteQuery(calls[c].cq),
                              ![c].result = ConnectionExecuteQuery(calls[c].cq),
                              ![c].done = 0]
    /\ UNCHANGED <<plugins, tq, derived>>

\* The promise of connection.executeQuery(compiledQuery) rejects: the
\* consumer rejects.
ConnectionRejects(c, f) ==
    /\ calls[c].pc = "consumer"
    /\ calls' = [calls EXCEPT ![c].pc = "release",
                              ![c].pending = f, ![c].failing = TRUE]
    /\ UNCHANGED <<plugins, tq, derived>>

\* Variant: the plugin is invoked and the loop goes on without awaiting it.
TransformResultInvokeNoAwait(c) ==
    /\ calls[c].pc = "transform"
    /\ HasNextPlugin(plugins, calls[c].done)
    /\ LET plugin == NextPlugin(plugins, calls[c].done) IN
         calls' = [calls EXCEPT ![c].done = @ + 1,
                     ![c].log = Append(@, Event("start", plugin.id, calls[c].result, calls[c].id))]
    /\ UNCHANGED <<plugins, tq, derived>>

\* Variant: the identifier is kept in a field of the instance, which the
\* call entered last (here the highest call in flight) has overwritten.
TransformResultInvokeSharedId(c) ==
    /\ calls[c].pc = "transform"
    /\ HasNextPlugin(plugins, calls[c].done)
    /\ LET plugin == NextPlugin(plugins, calls[c].done)
           last == CHOOSE d \in Calls :
                      /\ calls[d].pc # "idle"
                      /\ \A e \in Calls : calls[e].pc # "idle" => e <= d IN
         calls' = [calls EXCEPT ![c].pc = "plugin",
                     ![c].log = Append(@, Event("start", plugin.id, calls[c].result, calls[last].id))]
    /\ UNCHANGED <<plugins, tq, derived>>

\* plugin.transformResult({ result, queryId }) is invoked and awaited.
TransformResultInvoke(c) ==
    /\ calls[c].pc = "transform"
    /\ HasNextPlugin(plugins, calls[c].done)
    /\ LET plugin == NextPlugin(plugins, calls[c].done) IN
         calls' = [calls EXCEPT ![c].pc = "plugin",
                     ![c].log = Append(@, Event("start", plugin.id, calls[c].result, calls[c].id))]
    /\ UNCHANGED <<plugins, tq, derived>>

\* Variant: the result chain checks the shape of what a plugin resolves to,
\* as transformQuery checks the kind.
TransformResultResolvesShapeChecked(c) ==
    /\ calls[c].pc = "plugin"
    /\ LET plugin == NextPlugin(plugins, calls[c].done)
           transformed == PluginTransformResult(plugin, calls[c].result, calls[c].id) IN
       /\ ~PluginResultThrows(plugin)
       /\ calls' = IF transformed.shape = calls[c].result.shape
                   THEN [calls EXCEPT ![c].pc = "transform", ![c].result = transformed,
                           ![c].done = @ + 1,
                           ![c].log = Append(@, Event("end", plugin.id, transformed, calls[c].id))]
                   ELSE [calls EXCEPT ![c].pc = "release", ![c].failing = TRUE,
                           ![c].pending = Failure("mismatch", TRUE, "Error",
                                                  <<calls[c].result.shape, transformed.shape>>,
                                                  OriginTrace),
                           ![c].log = Append(@, Event("end", plugin.id, transformed, calls[c].id))]
    /\ UNCHANGED <<plugins, tq, derived>>

\* Variant: the loop position is one field of the instance, shared by all
\* calls in flight.
TransformResultResolvesSharedCursor(c) ==
    /\ calls[c].pc = "plugin"
    /\ LET plugin == NextPlugin(plugins, calls[c].done)
           transformed == PluginTransformResult(plugin, calls[c].result, calls[c].id) IN
       /\ ~PluginResultThrows(plugin)
       /\ calls' = [d \in Calls |->
                      IF d = c
                      THEN [calls[c] EXCEPT !.pc = "transform", !.result = transformed,
                              !.done = @ + 1,
                              !.log = Append(@, Event("end", plugin.id, transformed, calls[c].id))]
                      ELSE IF calls[d].pc = "transform"
                           THEN [calls[d] EXCEPT !.done = calls[c].done + 1]
                           ELSE calls[d]]
    /\ UNCHANGED <<plugins, tq, derived>>

\* The awaited plugin resolves: result = its value, next iteration.
TransformResultResolves(c) ==
    /\ calls[c].pc = "plugin"
    /\ LET plugin == NextPlugin(plugins, calls[c].done)
           transformed == PluginTransformResult(plugin, calls[c].result, calls[c].id) IN
       /\ ~PluginResultThrows(plugin)
       /\ calls' = [calls EXCEPT ![c].pc = "transform", ![c].result = transformed,
                      ![c].done = @ + 1,
                      ![c].log = Append(@, Event("end", plugin.id, transformed, calls[c].id))]
    /\ UNCHANGED <<plugins, tq, derived>>

\* Variant: a rejection is dropped and the loop goes on with the result it had.
TransformResultRejectsSwallowed(c, f) ==
    /\ calls[c].pc = "plugin"
    /\ PluginResultThrows(NextPlugin(plugins, calls[c].done))
    /\ calls' = [calls EXCEPT ![c].pc = "transform", ![c].done = @ + 1]
    /\ UNCHANGED <<plugins, tq, derived>>

\* The awaited plugin rejects: #transformResult and the consumer reject.
TransformResultRejects(c, f) ==
    /\ calls[c].pc = "plugin"
    /\ PluginResultThrows(NextPlugin(plugins, calls[c].done))
    /\ calls' = [calls EXCEPT ![c].pc = "release", ![c].pending = f, ![c].failing = TRUE]
    /\ UNCHANGED <<plugins, tq, derived>>

\* Variant: the return sits inside the loop.
TransformResultReturnEarly(c) ==
    /\ calls[c].pc = "transform"
    /\ calls[c].done >= 1 \/ ~HasNextPlugin(plugins, calls[c].done)
    /\ calls' = [calls EXCEPT ![c].pc = "release", ![c].value = calls[c].result]
    /\ UNCHANGED <<plugins, tq, derived>>

\* return result: the loop is over, the consumer resolves.
TransformResultReturn(c) ==
    /\ calls[c].pc = "transform"
    /\ ~HasNextPlugin(plugins, calls[c].done)
    /\ calls' = [calls EXCEPT ![c].pc = "release", ![c].value = calls[c].result]
    /\ UNCHANGED <<plugins, tq, derived>>

\* provideConnection releases the connection and settles as the consumer did.
ProvideConnectionRelease(c) ==
    /\ calls[c].pc = "release"
    /\ calls' = [calls EXCEPT ![c].pc = "settled", ![c].released = @ + 1]
    /\ UNCHANGED <<plugins, tq, derived>>

\* return await this.provideConnection(...)
ExecuteQueryReturn(c) ==
    /\ calls[c].pc = "settled"
    /\ ~calls[c].failing
    /\ calls' = [calls EXCEPT ![c].pc = "done", ![c].out = calls[c].value]
    /\ UNCHANGED <<plugins, tq, derived>>

\* Variant: the catch block runs the query once more.
ExecuteQueryCatchRetry(c, stackErrorStack) ==
    /\ calls[c].pc = "settled"
    /\ calls[c].failing
    /\ calls' = [calls EXCEPT ![c].pc = IF calls[c].provided < 2 THEN "provide" ELSE "failed",
                              ![c].caught = @ + 1,
                              ![c].provided = IF @ < 2 THEN @ + 1 ELSE @,
                              ![c].failing = calls[c].provided >= 2,
                              ![c].fresh = stackErrorStack,
                              ![c].thrown = IF calls[c].provided < 2 THEN NoFailure
                                            ELSE extendStackTrace(calls[c].pending, stackErrorStack)]
    /\ UNCHANGED <<plugins, tq, derived>>

\* catch (err) { throw extendStackTrace(err) }
ExecuteQueryCatch(c, stackErrorStack) ==
    /\ calls[c].pc = "settled"
    /\ calls[c].failing
    /\ calls' = [calls EXCEPT ![c].pc = "failed", ![c].caught = @ + 1,
                              ![c].fresh = stackErrorStack,
                              ![c].thrown = extendStackTrace(calls[c].pending, stackErrorStack)]
    /\ UNCHANGED <<plugins, tq, derived>>

----------------------------------------------------------------------------
(* Specifications.                                                          *)

Init ==
    /\ plugins \in {Constructor(ps) : ps \in SeqsUpTo(Catalogue, MaxPlugins)}
    /\ tq = TqIdle
    /\ calls = [c \in Calls |-> CallIdle]
    /\ derived = NoDerivation

\* transformQuery on any node with any identifier.
NextQuery ==
    \/ \E n \in InputNodes, id \in QueryIds : TransformQueryCall(n, id)
    \/ TransformQueryStep
    \/ TransformQueryMismatch
    \/ TransformQueryPluginThrows
    \/ TransformQueryReturn

SpecQuery == Init /\ [][NextQuery]_vars

\* The steps of executeQuery call c, with the arguments drawn from `reqs`,
\* the failures from the values of the given shapes and the fresh trace at
\* the catch site from `fresh`.
ExecStep(c, reqs, shapes, fresh) ==
    \/ \E r \in reqs : ExecuteQueryCall(c, r[1], r[2])
    \/ ProvideConnectionAcquire(c)
    \/ \E f \in ThrownBy("ProvisioningFailure", shapes) : ProvideConnectionFails(c, f)
    \/ ConnectionResolves(c)
    \/ \E f \in ThrownBy("ExecutionFailure", shapes) : ConnectionRejects(c, f)
    \/ TransformResultInvoke(c)
    \/ TransformResultResolves(c)
    \/ \E f \in ThrownBy("PluginFailure", shapes) : TransformResultRejects(c, f)
    \/ TransformResultReturn(c)
    \/ ProvideConnectionRelease(c)
    \/ ExecuteQueryReturn(c)
    \/ \E s \in fresh : ExecuteQueryCatch(c, s)

\* One executeQuery call, every compiled query, identifier, failure and trace.
Next == ExecStep(1, CompiledQueries \X QueryIds, ThrownShapes, FreshStacks)

Spec == Init /\ [][Next]_vars

\* The arguments of concurrent call c: odd calls run q1 under id1, even
\* calls q2 under id2.
RequestOf(c) == IF c % 2 = 1 THEN <<"q1", "id1">> ELSE <<"q2", "id2">>

\* Concurrent executeQuery calls on the one instance, interleaved at every
\* suspension point; failures are Error-like and the fresh trace has a frame.
NextConc ==
    \E c \in Calls :
        ExecStep(c, {RequestOf(c)}, {ErrorShape}, {Str(<<"Error", "at executeQuery">>)})

SpecConc == Init /\ [][NextConc]_vars

\* The fresh trace of a runtime that records one frame.
OneFrame == {Str(<<"Error", "at executeQuery">>)}

\* Any sequence of derivations, transformQuery and executeQuery calls on one
\* receiver.
NextDerive ==
    \/ \E p \in AddedPlugins : WithPlugin(p)
    \/ \E qs \in ReplacementSequences : WithPlugins(qs)
    \/ \E p \in AddedPlugins : WithPluginAtFront(p)
    \/ WithoutPlugins
    \/ \E cp \in Providers : WithConnectionProvider(cp)
    \/ ConstructWithoutArgument
    \/ NextQuery
    \/ ExecStep(1, {<<"q1", "id1">>}, {ErrorShape}, OneFrame)

SpecDerive == Init /\ [][NextDerive]_vars

\* transformQuery of a select node under the identifier of call 1,
\* interleaved with the concurrent executeQuery calls.
NextIds ==
    \/ TransformQueryCall(Node("select", <<>>), RequestOf(1)[2])
    \/ TransformQueryStep
    \/ TransformQueryMismatch
    \/ TransformQueryPluginThrows
    \/ TransformQueryReturn
    \/ NextConc

SpecIds == Init /\ [][NextIds]_vars

\* The instance under call is the one withPluginAtFront(p) returned for a
\* receiver constructed with any sequence.
InitFront ==
    /\ \E ps \in SeqsUpTo(Catalogue, MaxPlugins), p \in Catalogue :
          derived = Derivation("withPluginAtFront", Constructor(ps), <<p>>,
                               withPluginAtFront(Constructor(ps), p), DefaultProvider)
    /\ plugins = derived.plugins
    /\ tq = TqIdle
    /\ calls = [c \in Calls |-> CallIdle]

SpecFront == InitFront /\ [][NextQuery]_vars

----------------------------------------------------------------------------
(* Properties of transformQuery (SpecQuery).                                *)

\* The node obtained by threading n through the first k plugins of ps.
RECURSIVE QueryChain(_, _, _, _)
QueryChain(ps, n, id, k) ==
    IF k = 0 THEN n
    ELSE PluginTransformQuery(ps[k], QueryChain(ps, n, id, k - 1), id)

\* Plugin i of ps returns, and returns the kind it is given, when the nodes
\* are threaded from n.
ReturnsSameKind(ps, n, id, i) ==
    /\ ~PluginQueryThrows(ps[i])
    /\ QueryChain(ps, n, id, i).kind = QueryChain(ps, n, id, i - 1).kind

KindPreserving(ps, n, id) == \A i \in 1..Len(ps) : ReturnsSameKind(ps, n, id, i)

\* The invocation transformQuery owes to plugin i.
ExpectedInvocation(ps, n, id, i) ==
    Invocation(ps[i].id, QueryChain(ps, n, id, i - 1), id, QueryChain(ps, n, id, i))

\* C1: when every plugin returns a node of the kind it was given,
\* transformQuery does not throw, invokes the plugins once each in
\* registration order, hands plugin i+1 the node plugin i returned
\* (plugin 1 the argument) and returns what the last plugin returned.
C1_TransformQueryThreads ==
    (tq.pc # "idle" /\ KindPreserving(plugins, tq.input, tq.id)) =>
        /\ tq.pc # "thrown"
        /\ tq.error = NoFailure
        /\ Len(tq.log) <= Len(plugins)
        /\ \A i \in 1..Len(tq.log) :
              tq.log[i] = ExpectedInvocation(plugins, tq.input, tq.id, i)
        /\ tq.pc = "returned" =>
              /\ Len(tq.log) = Len(plugins)
              /\ tq.out = QueryChain(plugins, tq.input, tq.id, Len(plugins))
              /\ Len(plugins) > 0 => tq.out = tq.log[Len(tq.log)].returned

\* transformQuery returned after two different plugins rewrote a select node.
C1_Witness ==
    /\ tq.pc = "returned"
    /\ plugins = <<Uppercase, AddLimit>>
    /\ tq.input.kind = "select"
    /\ tq.out = Node("select", <<"Uppercase", "AddLimit">>)

\* The positions whose plugin is reached and returns a node of another kind
\* than the one it is given.
Offenders(ps, n, id) ==
    {i \in 1..Len(ps) :
        /\ \A j \in 1..(i - 1) : ReturnsSameKind(ps, n, id, j)
        /\ ~PluginQueryThrows(ps[i])
        /\ QueryChain(ps, n, id, i).kind # QueryChain(ps, n, id, i - 1).kind}

FirstOffender(ps, n, id) ==
    CHOOSE i \in Offenders(ps, n, id) : \A j \in Offenders(ps, n, id) : i <= j

\* The error transformQuery itself raises (the spec's StructuralViolation).
IsStructuralViolation(f) ==
    /\ f.obj
    /\ f.name = "Error"
    /\ Len(f.data) = 6
    /\ f.data[1] = "KyselyPlugin.transformQuery must return a node"
    /\ f.data[2] = "of the same kind that was given to it."

\* C2: when a plugin returns a node of another kind than it was given,
\* transformQuery throws its kind-mismatch error at the first such plugin,
\* invokes no plugin after it and returns no node.
C2_MismatchFailsFast ==
    (tq.pc # "idle" /\ Offenders(plugins, tq.input, tq.id) # {}) =>
        LET k == FirstOffender(plugins, tq.input, tq.id) IN
        /\ tq.pc # "returned"
        /\ tq.out = NoNode
        /\ Len(tq.log) <= k
        /\ tq.done < k
        /\ tq.pc = "thrown" =>
              /\ Len(tq.log) = k
              /\ tq.log[k].plugin = plugins[k].id
              /\ IsStructuralViolation(tq.error)

\* The first of two plugins changed an update node into a delete node and
\* the second was never invoked.
C2_Witness ==
    /\ tq.pc = "thrown"
    /\ plugins = <<ToDelete, AddLimit>>
    /\ tq.input.kind = "update"
    /\ Len(tq.log) = 1
    /\ IsStructuralViolation(tq.error)

\* f's message mentions x.
Mentions(f, x) == \E i \in 1..Len(f.data) : f.data[i] = x

\* The last invocation transformQuery made.
LastInvocation == tq.log[Len(tq.log)]

\* C9 as stated: the kind-mismatch error reports the expected kind, the
\* actual kind and identifies the offending plugin.
C9_Original ==
    (tq.pc = "thrown" /\ IsStructuralViolation(tq.error)) =>
        /\ Mentions(tq.error, LastInvocation.given.kind)
        /\ Mentions(tq.error, LastInvocation.returned.kind)
        /\ Mentions(tq.error, LastInvocation.plugin)

\* C9 amended: the kind-mismatch error reports, in this order, the kind of
\* the node given to the offending plugin and the kind of the node it
\* returned ("update" then "delete" for a plugin that turns an update into a
\* delete); it does not say which plugin it was.
C9_ReportsKinds ==
    (tq.pc = "thrown" /\ IsStructuralViolation(tq.error)) =>
        /\ tq.error.data[3] = "The plugin was given a"
        /\ tq.error.data[4] = LastInvocation.given.kind
        /\ tq.error.data[5] = "but it returned a"
        /\ tq.error.data[6] = LastInvocation.returned.kind
        /\ LastInvocation.given.kind # LastInvocation.returned.kind
        /\ ~Mentions(tq.error, LastInvocation.plugin)
        /\ (LastInvocation.plugin = "ToDelete" /\ LastInvocation.given.kind = "update") =>
              (tq.error.data[4] = "update" /\ tq.error.data[6] = "delete")

\* A plugin given an update node returned a delete node.
C9_Witness ==
    /\ tq.pc = "thrown"
    /\ IsStructuralViolation(tq.error)
    /\ LastInvocation.given.kind = "update"
    /\ LastInvocation.returned.kind = "delete"
    /\ Len(tq.log) = 2

----------------------------------------------------------------------------
(* Properties of executeQuery (Spec, SpecConc).                             *)

\* The result obtained by threading raw through the first k plugins of ps.
RECURSIVE ResultChain(_, _, _, _)
ResultChain(ps, raw, id, k) ==
    IF k = 0 THEN raw
    ELSE PluginTransformResult(ps[k], ResultChain(ps, raw, id, k - 1), id)

\* f is an object whose stack is a string.
HasStringTrace(f) == f.obj /\ f.stack.t = "string"

\* The raw result of call c, and that result after the first k plugins.
RawOf(c) == ConnectionExecuteQuery(calls[c].cq)

Threaded(c, k) == ResultChain(plugins, RawOf(c), calls[c].id, k)

\* The j-th event the result chain of call c owes: plugin i starts at event
\* 2i-1 with the result of plugin i-1 and ends at event 2i.
ExpectedEvent(c, j) ==
    IF j % 2 = 1
    THEN Event("start", plugins[(j + 1) \div 2].id, Threaded(c, (j - 1) \div 2), calls[c].id)
    ELSE Event("end", plugins[j \div 2].id, Threaded(c, j \div 2), calls[c].id)

\* The consumer of call c resolved (no failure was raised in it).
ChainCompleted(c) ==
    /\ calls[c].pc \in {"release", "settled", "done"}
    /\ ~calls[c].failing

\* C3: the result chain invokes the plugins in registration order, each
\* invocation starting only after the previous one has settled; the first
\* receives the raw result of connection.executeQuery, the next what the
\* previous one resolved to; a chain that completes has invoked every plugin
\* exactly once.
C3_ResultChainSequential ==
    \A c \in Calls :
        /\ Len(calls[c].log) <= 2 * Len(plugins)
        /\ \A j \in 1..Len(calls[c].log) : calls[c].log[j] = ExpectedEvent(c, j)
        /\ calls[c].pc = "plugin" => Len(calls[c].log) = 2 * calls[c].done + 1
        /\ calls[c].pc = "transform" => Len(calls[c].log) = 2 * calls[c].done
        /\ ChainCompleted(c) => Len(calls[c].log) = 2 * Len(plugins)

\* Both of two different plugins have transformed the result, in order.
C3_Witness ==
    /\ plugins = <<ToDelete, AddLimit>>
    /\ ChainCompleted(1)
    /\ Len(calls[1].log) = 4
    /\ calls[1].value = Result("parsed", <<calls[1].cq, "ToDelete", "AddLimit">>)

\* Number of plugin invocations of call c that have resolved.
Resolved(c) == Cardinality({j \in 1..Len(calls[c].log) : calls[c].log[j].ev = "end"})

\* C4: a value returned by executeQuery is the raw result threaded through
\* every plugin in order (the raw result itself without plugins); a call in
\* which a failure was raised returns no value and ends by throwing.
C4_NoPartialResult ==
    \A c \in Calls :
        /\ calls[c].pc = "done" =>
              /\ calls[c].out = Threaded(c, Len(plugins))
              /\ Resolved(c) = Len(plugins)
              /\ ~calls[c].failing
              /\ calls[c].thrown = NoFailure
        /\ calls[c].pc # "done" => calls[c].out = NoResult
        /\ calls[c].pc = "failed" => (calls[c].failing /\ calls[c].caught = 1)

\* executeQuery returned the fully transformed result of a two-plugin chain.
C4_Witness ==
    /\ calls[1].pc = "done"
    /\ Len(plugins) = 2
    /\ calls[1].out = Result("rows", <<calls[1].cq, "Uppercase", "AddLimit">>)

\* executeQuery call c has returned or thrown.
Finished(c) == calls[c].pc \in {"done", "failed"}

\* C5: a call calls provideConnection once and connection.executeQuery at
\* most once; when the consumer ran, whether it resolved or the connection
\* or a plugin raised, the connection was acquired once and released once
\* by the time executeQuery finishes.
C5_AcquireReleaseOnce ==
    \A c \in Calls :
        /\ calls[c].provided <= 1
        /\ calls[c].pc # "idle" => calls[c].provided = 1
        /\ calls[c].executed <= 1
        /\ calls[c].acquired <= 1
        /\ calls[c].released <= calls[c].acquired
        /\ Finished(c) =>
              /\ calls[c].released = calls[c].acquired
              /\ calls[c].executed = 1 => (calls[c].acquired = 1 /\ calls[c].released = 1)
              /\ calls[c].pc = "done" => calls[c].executed = 1

\* A plugin raised in the result chain and the call threw, connection released.
C5_Witness ==
    /\ calls[1].pc = "failed"
    /\ calls[1].pending.name = "PluginFailure"
    /\ calls[1].acquired = 1
    /\ calls[1].released = 1

\* C6: a failure raised during executeQuery is caught once and thrown to the
\* caller as the same value (identity, kind and carried data); it is never
\* turned into a normal return and the query is not run again.
C6_FailurePropagates ==
    \A c \in Calls :
        /\ calls[c].caught <= 1
        /\ calls[c].failing => (calls[c].pc # "done" /\ calls[c].out = NoResult)
        /\ calls[c].failing => calls[c].pc \in {"release", "settled", "failed"}
        /\ calls[c].pc = "done" => calls[c].caught = 0
        /\ calls[c].pc = "failed" =>
              /\ calls[c].caught = 1
              /\ calls[c].thrown.ref = calls[c].pending.ref
              /\ calls[c].thrown.obj = calls[c].pending.obj
              /\ calls[c].thrown.name = calls[c].pending.name
              /\ calls[c].thrown.data = calls[c].pending.data

\* A failure of provideConnection itself, with a trace, reached the caller
\* with its trace extended.
C6_Witness ==
    /\ calls[1].pc = "failed"
    /\ calls[1].pending.name = "ProvisioningFailure"
    /\ HasStringTrace(calls[1].pending)
    /\ calls[1].thrown # calls[1].pending

\* Call c threw a failure that connection.executeQuery raised with a trace.
ConnectionFailureThrown(c) ==
    /\ calls[c].pc = "failed"
    /\ calls[c].pending.name = "ExecutionFailure"
    /\ HasStringTrace(calls[c].pending)

\* C7 as stated: the trace of a connection failure thrown by executeQuery has
\* strictly more lines than when it was raised, the original trace being its
\* prefix, whatever the fresh trace at the catch site is.
C7_Original ==
    \A c \in Calls :
        ConnectionFailureThrown(c) =>
            /\ LineCount(calls[c].thrown.stack) > LineCount(calls[c].pending.stack)
            /\ IsPrefix(calls[c].pending.stack.lines, calls[c].thrown.stack.lines)

\* C7 amended: when the fresh trace is a non-empty string the thrown trace is
\* the original trace followed by the fresh trace without its leading line
\* (one empty line when the fresh trace is its leading line alone), so it has
\* strictly more lines; when the fresh trace is absent or empty the trace is
\* left as it was raised.
C7_TraceExtended ==
    \A c \in Calls :
        ConnectionFailureThrown(c) =>
            /\ isString(calls[c].thrown.stack)
            /\ IsPrefix(calls[c].pending.stack.lines, calls[c].thrown.stack.lines)
            /\ IF isString(calls[c].fresh) /\ calls[c].fresh # EmptyString
               THEN /\ LineCount(calls[c].thrown.stack) > LineCount(calls[c].pending.stack)
                    /\ LineCount(calls[c].thrown.stack) =
                          LineCount(calls[c].pending.stack)
                            + (IF LineCount(calls[c].fresh) = 1 THEN 1
                               ELSE LineCount(calls[c].fresh) - 1)
               ELSE calls[c].thrown.stack = calls[c].pending.stack

\* A connection failure was thrown with the frames of the catch site appended.
C7_Witness ==
    /\ ConnectionFailureThrown(1)
    /\ calls[1].pending.stack = OriginTrace
    /\ calls[1].fresh = Str(<<"Error", "at executeQuery", "at caller">>)
    /\ calls[1].thrown.stack =
          Str(<<"Error: boom", "at origin", "at executeQuery", "at caller">>)

\* C8: a failure that is not an object with a string stack is thrown by
\* executeQuery exactly as it was caught; of one that has a string stack
\* nothing but the stack differs, the thrown value being the caught object.
C8_OnlyTraceChanges ==
    \A c \in Calls :
        calls[c].pc = "failed" =>
            /\ ~HasStringTrace(calls[c].pending) => calls[c].thrown = calls[c].pending
            /\ HasStringTrace(calls[c].pending) =>
                  [calls[c].thrown EXCEPT !.stack = calls[c].pending.stack] = calls[c].pending

\* An object without a string stack was thrown unchanged although the catch
\* site had a trace to append.
C8_Witness ==
    /\ calls[1].pc = "failed"
    /\ calls[1].pending.obj
    /\ calls[1].pending.stack = NumberValue
    /\ calls[1].fresh = Str(<<"Error", "at executeQuery">>)
    /\ calls[1].thrown = calls[1].pending

\* Every result that call c handed to a plugin or got back from it stems
\* from the raw result of c itself.
OwnResultsOnly(c) ==
    \A j \in 1..Len(calls[c].log) :
        /\ calls[c].log[j].result.rows[1] = calls[c].cq
        /\ calls[c].log[j].id = calls[c].id
        /\ (j > 1 /\ calls[c].log[j].ev = "start") =>
              calls[c].log[j].result = calls[c].log[j - 1].result

\* C10: with calls interleaved at their suspension points, a call that
\* returns returns its own raw result threaded through all plugins in
\* registration order, a call hands its plugins only results derived from
\* its own raw result, and the plugin sequence never changes.
C10_ConcurrentCallsIndependent ==
    /\ [](\A c \in Calls :
            /\ OwnResultsOnly(c)
            /\ calls[c].pc = "done" =>
                  (calls[c].out = Threaded(c, Len(plugins)) /\ Resolved(c) = Len(plugins)))
    /\ [][plugins' = plugins]_vars

\* Call 1 has returned its own threaded result while call 2, which entered
\* its chain before call 1 finished it, is still awaiting a plugin.
C10_Witness ==
    /\ Len(plugins) = 2
    /\ calls[1].pc = "done"
    /\ calls[1].out = Result("rows", <<"q1", "Uppercase", "AddLimit">>)
    /\ calls[2].pc = "plugin"
    /\ calls[2].done = 1
    /\ calls[2].result = Result("rows", <<"q2", "Uppercase">>)

----------------------------------------------------------------------------
(* Properties of derivation (SpecDerive, SpecFront).                        *)

\* C11: no step of a derivation, of transformQuery or of executeQuery
\* changes the receiver's plugins (each derivation saw the sequence the
\* receiver still has), and an instance constructed without a plugins
\* argument has the empty sequence.
C11_PluginsFixed ==
    /\ [][plugins' = plugins]_vars
    /\ [](derived.op # "none" => derived.receiver = plugins)
    /\ [](derived.op = "new" => derived.plugins = <<>>)

\* After transformQuery and executeQuery ran through both plugins of the
\* receiver, a derivation returned an instance with another sequence.
C11_Witness ==
    /\ Len(plugins) = 2
    /\ tq.pc = "returned"
    /\ calls[1].pc = "done"
    /\ derived.op = "withPluginAtFront"
    /\ derived.receiver = plugins
    /\ derived.plugins # plugins

----------------------------------------------------------------------------
(* Properties of the query identifier (SpecIds).                            *)

\* The identifiers the plugins were handed by transformQuery, and by the
\* result chain of executeQuery call c.
IdsSeenInQuery == {tq.log[i].id : i \in 1..Len(tq.log)}

IdsSeenInResult(c) == {calls[c].log[j].id : j \in 1..Len(calls[c].log)}

\* C12: every plugin.transformQuery invocation of transformQuery(node, id)
\* receives id and every plugin.transformResult invocation of
\* executeQuery(compiledQuery, id) receives id: plugins see one identifier
\* in a transformQuery call and the executeQuery call made under the same
\* identifier, and never the identifier of another call in flight.
C12_QueryIdThreaded ==
    /\ IdsSeenInQuery \subseteq {tq.id}
    /\ \A c \in Calls :
          /\ IdsSeenInResult(c) \subseteq {calls[c].id}
          /\ tq.id = calls[c].id => IdsSeenInQuery \union IdsSeenInResult(c) \subseteq {tq.id}
          /\ \A d \in Calls \ {c} :
                calls[d].id # calls[c].id => calls[d].id \notin IdsSeenInResult(c)

\* transformQuery ran under id1; call 1 (id1) and call 2 (id2) have both
\* handed their identifiers to plugins while the other was in flight.
C12_Witness ==
    /\ tq.pc = "returned"
    /\ IdsSeenInQuery = {"id1"}
    /\ IdsSeenInResult(1) = {"id1"}
    /\ IdsSeenInResult(2) = {"id2"}
    /\ calls[1].pc = "plugin"
    /\ calls[2].pc = "plugin"

\* C13: transformQuery on the instance withPluginAtFront(p) returned invokes
\* p first and then the plugins of the receiver in their order there.
C13_FrontPluginFirst ==
    (derived.op = "withPluginAtFront" /\ tq.pc # "idle") =>
        /\ Len(tq.log) <= Len(derived.receiver) + 1
        /\ \A i \in 1..Len(tq.log) :
              tq.log[i].plugin = (IF i = 1 THEN derived.arg[1].id
                                  ELSE derived.receiver[i - 1].id)
        /\ tq.pc = "returned" => Len(tq.log) = Len(derived.receiver) + 1

\* ToDelete was put in front of <<Uppercase, AddLimit>> and transformQuery
\* of a delete node invoked the three in that order.
C13_Witness ==
    /\ derived.op = "withPluginAtFront"
    /\ derived.receiver = <<Uppercase, AddLimit>>
    /\ derived.arg = <<ToDelete>>
    /\ tq.pc = "returned"
    /\ tq.out = Node("delete", <<"ToDelete", "Uppercase", "AddLimit">>)

----------------------------------------------------------------------------
(* Further properties of executeQuery and transformQuery.                   *)

\* C14: within a call the connection is acquired before
\* connection.executeQuery, the plugins transform the result after it
\* resolved and while the connection is held, the connection is released
\* only once the last plugin has resolved or a failure was raised, and
\* executeQuery returns after the release.
C14_ChainInsideUnitOfWork ==
    \A c \in Calls :
        /\ calls[c].executed = 1 => calls[c].acquired = 1
        /\ Len(calls[c].log) > 0 => (calls[c].executed = 1 /\ calls[c].raw # NoResult)
        /\ calls[c].pc \in {"consumer", "transform", "plugin", "release"} =>
              (calls[c].acquired = 1 /\ calls[c].released = 0)
        /\ calls[c].released >= 1 =>
              /\ calls[c].released = 1
              /\ calls[c].pc \in {"settled", "done", "failed"}
              /\ calls[c].failing \/ Len(calls[c].log) = 2 * Len(plugins)
        /\ calls[c].pc = "done" => calls[c].released = 1

\* The second plugin of a call is running and the connection is still held.
C14_Witness ==
    /\ calls[1].pc = "plugin"
    /\ calls[1].done = 1
    /\ calls[1].acquired = 1
    /\ calls[1].released = 0
    /\ calls[1].executed = 1

\* The positions of the plugins whose transformResult raises.
Throwers(ps) == {i \in 1..Len(ps) : PluginResultThrows(ps[i])}

FirstThrower(ps) == CHOOSE i \in Throwers(ps) : \A j \in Throwers(ps) : i <= j

\* C15: when provideConnection or connection.executeQuery fails no plugin's
\* transformResult is invoked; when the plugin at position k raises, the
\* plugins before it have run once each, none after it is invoked, and the
\* call throws the failure that was raised.
C15_ResultPhaseFailFast ==
    \A c \in Calls :
        /\ (calls[c].failing /\ calls[c].pending.name \in {"ProvisioningFailure", "ExecutionFailure"})
              => calls[c].log = <<>>
        /\ Throwers(plugins) # {} =>
              /\ Len(calls[c].log) <= 2 * FirstThrower(plugins) - 1
              /\ calls[c].pc # "done"
        /\ (calls[c].failing /\ calls[c].pending.name = "PluginFailure") =>
              /\ Throwers(plugins) # {}
              /\ calls[c].done = FirstThrower(plugins) - 1
              /\ Len(calls[c].log) = 2 * FirstThrower(plugins) - 1
              /\ \A j \in 1..Len(calls[c].log) : calls[c].log[j] = ExpectedEvent(c, j)
        /\ calls[c].pc = "failed" =>
              /\ calls[c].thrown.ref = calls[c].pending.ref
              /\ calls[c].thrown.name = calls[c].pending.name

\* The second of two plugins raised after the first had transformed the
\* result, and the call threw.
C15_Witness ==
    /\ plugins = <<AddLimit, Faulty>>
    /\ calls[1].pc = "failed"
    /\ calls[1].thrown.name = "PluginFailure"
    /\ Len(calls[1].log) = 3
    /\ calls[1].done = 1

\* C16: the working node of transformQuery has the kind of the node passed
\* in before and after every iteration, so a returned node has that kind,
\* and the kind a mismatch error names as given is that kind.
C16_KindPreserved ==
    /\ tq.pc \in {"loop", "returned"} => tq.node.kind = tq.input.kind
    /\ \A i \in 1..Len(tq.log) :
          /\ tq.log[i].given.kind = tq.input.kind
          /\ (i < Len(tq.log) \/ tq.pc \in {"loop", "returned"}) =>
                tq.log[i].returned.kind = tq.input.kind
    /\ tq.pc = "returned" => tq.out.kind = tq.input.kind
    /\ (tq.pc = "thrown" /\ IsStructuralViolation(tq.error)) =>
          tq.error.data[4] = tq.input.kind

\* A plugin that returns delete nodes was given a delete node, another
\* plugin rewrote it, and transformQuery returned a delete node.
C16_Witness ==
    /\ plugins = <<ToDelete, Uppercase>>
    /\ tq.input = Node("delete", <<>>)
    /\ tq.pc = "returned"
    /\ tq.out = Node("delete", <<"ToDelete", "Uppercase">>)

\* C17: the result chain takes what a plugin's transformResult resolves to
\* as it is, whatever its shape, and hands it to the next plugin or to the
\* caller; a failure of a call whose connection resolved stems from a plugin
\* that raised, never from executeQuery itself.
C17_NoResultShapeCheck ==
    \A c \in Calls :
        /\ \A j \in 1..Len(calls[c].log) :
              /\ (calls[c].log[j].ev = "end" /\ j > 1) =>
                    calls[c].log[j].result =
                        PluginTransformResult(plugins[j \div 2], calls[c].log[j - 1].result,
                                              calls[c].id)
              /\ (calls[c].log[j].ev = "start" /\ j > 1) =>
                    calls[c].log[j].result = calls[c].log[j - 1].result
        /\ (calls[c].failing /\ calls[c].raw # NoResult) =>
              /\ calls[c].pending.name = "PluginFailure"
              /\ calls[c].done + 1 \in Throwers(plugins)
        /\ calls[c].pc = "failed" =>
              calls[c].thrown.name \in {"ProvisioningFailure", "ExecutionFailure", "PluginFailure"}
        /\ (calls[c].pc = "done" /\ Len(plugins) > 0) =>
              calls[c].out = calls[c].log[Len(calls[c].log)].result

\* A plugin changed the shape of the result and executeQuery returned it.
C17_Witness ==
    /\ plugins = <<Uppercase, ToDelete>>
    /\ calls[1].pc = "done"
    /\ calls[1].raw.shape = "rows"
    /\ calls[1].out.shape = "parsed"

\* C18: an executor without plugins invokes no plugin: transformQuery
\* returns the node it was given, without error, and executeQuery returns
\* the raw result of connection.executeQuery.
C18_EmptyChainsAreIdentity ==
    plugins = <<>> =>
        /\ tq.log = <<>>
        /\ tq.pc # "thrown"
        /\ tq.pc = "returned" => tq.out = tq.input
        /\ \A c \in Calls :
              /\ calls[c].log = <<>>
              /\ calls[c].pc = "done" =>
                    (calls[c].out = calls[c].raw /\ calls[c].out = RawOf(c))

\* Without plugins transformQuery returned its update node and executeQuery
\* the raw result of q1.
C18_Witness ==
    /\ plugins = NO_PLUGINS
    /\ tq.pc = "returned"
    /\ tq.out = Node("update", <<>>)
    /\ calls[1].pc = "done"
    /\ calls[1].out = Result("rows", <<"q1">>)

====
